---- MODULE Spec2Model ----
(***************************************************************************)
(* WaveMU (OpenPMU waveform merging unit simulator): the frame pacing      *)
(* loop WaveMU.run, the cooperative stop flag, the sample block generator  *)
(* readWaveFileGen and the template driven encoder toXML.                  *)
(*                                                                         *)
(* Time is the wall clock in milliseconds since midnight of day 0 of the   *)
(* model.  Texts (the str values placed in the XML tree) are sequences of  *)
(* one-character strings.  Console output (print) is not modelled.         *)
(***************************************************************************)
EXTENDS Integers, Sequences, FiniteSets, TLC

VARIABLES
    pc,           \* position of the thread executing run()
    stopThread,   \* self.stopThread
    xmlTemplate,  \* self.xmlTemplate: the children of the template's root
    channels,     \* self.channels
    waveFile,     \* number of sample frames in the file at self.waveFilePath
    samples,      \* the file's sample frames, where their values are followed
    clock,        \* the wall clock at the last datetime.now() or sleep of run()
    jitter,       \* clock ticks of delay met so far by the current run
    runs,         \* number of run() invocations so far
    timeStart,    \* run(): timeStart, until the hold-off loop is left
    startTime,    \* run(): startTime
    resultDict,   \* run(): resultDict
    frame,        \* run(): frame
    SVgen,        \* run(): SVgen, the number of sample frames it has read
    now,          \* run(): now
    payload,      \* run(): payload
    xml,          \* run(): xml
    s,            \* run(): s, in milliseconds
    sentOut,      \* datagrams handed to the primary destination in this run
    sentFwd,      \* datagrams handed to the relay 127.0.0.1:48005 in this run
    nOut,         \* number of datagrams handed to the primary in this run
    nFwd,         \* number of datagrams handed to the relay in this run
    syncAt,       \* clock value at which this run left the hold-off loop
    stopAt        \* <<nOut, nFwd>> when stop() was first called in this run

vars == <<pc, stopThread, xmlTemplate, channels, waveFile, samples, clock,
          jitter, runs,
          timeStart, startTime, resultDict, frame, SVgen, now, payload, xml, s,
          sentOut, sentFwd, nOut, nFwd, syncAt, stopAt>>

----------------------------------------------------------------------------
(* Program constants *)

IntervalMs == 10
Fs == 12800
bits == 16
BlockSize == 128
n == (Fs * IntervalMs) \div 1000
FramesPerSecond == 1000 \div IntervalMs

(* Bounds of the model *)

MaxRuns == 2
MaxChannels == 4
MaxSmallBlocks == 2
ExtraBlocks == 2
MaxRemainder == 1
MaxJitterTicks == 2
LogWindow == 2
MaxFrames == 3

TickMs == IntervalMs \div 2
MsPerSecond == 1000
MsPerDay == 24 * 60 * 60 * MsPerSecond
None == <<>>
NotStopped == <<-1, -1>>

----------------------------------------------------------------------------
(* Text conversions *)

Digits == <<"0", "1", "2", "3", "4", "5", "6", "7", "8", "9">>

RECURSIVE Str(_)
Str(v) == IF v < 10 THEN <<Digits[v + 1]>>
          ELSE Str(v \div 10) \o <<Digits[(v % 10) + 1]>>

RECURSIVE ZeroPad(_, _)
ZeroPad(text, width) ==
    IF Len(text) >= width THEN text ELSE ZeroPad(<<"0">> \o text, width)

strftimeHMS(t) ==
    ZeroPad(Str((t \div 3600000) % 24), 2) \o <<":">> \o
    ZeroPad(Str((t \div 60000) % 60), 2) \o <<":">> \o
    ZeroPad(Str((t \div MsPerSecond) % 60), 2)

strftimeDate(t) == <<"d">> \o Str(t \div MsPerDay)

(* Mutant: the milliseconds are those of the clock *)
TimeField_ClockMs(t, f) ==
    strftimeHMS(t) \o <<".">> \o ZeroPad(Str(t % MsPerSecond), 3)

(* line 96 *)
TimeField(t, f) == strftimeHMS(t) \o <<".">> \o ZeroPad(Str(f * IntervalMs), 3)

(* An int16 as the 16-bit pattern that stores it *)
Unsigned16(v) == (v + 65536) % 65536
Signed16(u) == IF u >= 32768 THEN u - 65536 ELSE u

(* Mutant: the samples are not byte-swapped *)
byteswap_Skipped(v) == v

(* ndarray.byteswap of an int16: the value whose two bytes are exchanged *)
byteswap(v) ==
    Signed16((Unsigned16(v) % 256) * 256 + (Unsigned16(v) \div 256))

(* The memory of an int16 array row handed to b64encode: each element's two
   bytes in the host's order, the low byte first (a little-endian host) *)
RECURSIVE tobytes(_)
tobytes(array) ==
    IF Len(array) = 0 THEN <<>>
    ELSE << Unsigned16(Head(array)) % 256,
            Unsigned16(Head(array)) \div 256 >> \o tobytes(Tail(array))

Base64Alphabet ==
    << "A", "B", "C", "D", "E", "F", "G", "H", "I", "J", "K", "L", "M",
       "N", "O", "P", "Q", "R", "S", "T", "U", "V", "W", "X", "Y", "Z",
       "a", "b", "c", "d", "e", "f", "g", "h", "i", "j", "k", "l", "m",
       "n", "o", "p", "q", "r", "s", "t", "u", "v", "w", "x", "y", "z",
       "0", "1", "2", "3", "4", "5", "6", "7", "8", "9", "+", "/" >>

B64Char(v) == Base64Alphabet[v + 1]

RECURSIVE standard_b64encode(_)
standard_b64encode(bytes) ==
    IF Len(bytes) = 0 THEN <<>>
    ELSE IF Len(bytes) = 1
    THEN << B64Char(bytes[1] \div 4), B64Char((bytes[1] % 4) * 16), "=", "=" >>
    ELSE IF Len(bytes) = 2
    THEN << B64Char(bytes[1] \div 4),
            B64Char((bytes[1] % 4) * 16 + (bytes[2] \div 16)),
            B64Char((bytes[2] % 16) * 4), "=" >>
    ELSE << B64Char(bytes[1] \div 4),
            B64Char((bytes[1] % 4) * 16 + (bytes[2] \div 16)),
            B64Char((bytes[2] % 16) * 4 + (bytes[3] \div 64)),
            B64Char(bytes[3] % 64) >>
         \o standard_b64encode(SubSeq(bytes, 4, Len(bytes)))

(* line 41.  A row is held by its samples or, where only which samples they
   are matters, by its place in the file (channel, first sample frame,
   number of sample frames); the text of the latter names that place. *)
b64encode(row) ==
    IF "samples" \in DOMAIN row
    THEN standard_b64encode(tobytes(row.samples))
    ELSE <<"b", "6", "4", ":">> \o Str(row.chan) \o <<"@">> \o Str(row.start)
            \o <<"+">> \o Str(row.len)

NumericKeys == {"Frame", "Fs", "n", "Channels", "bits"}

dictTypeConvert(key, value) ==
    IF key \in NumericKeys THEN Str(value)
    ELSE IF key = "Payload" THEN b64encode(value)
    ELSE value

----------------------------------------------------------------------------
(* The XML template and the encoder *)

ChannelTags ==
    <<"Channel_0", "Channel_1", "Channel_2", "Channel_3", "Channel_4",
      "Channel_5">>
ChannelTag(i) == ChannelTags[i + 1]
IsChannelTag(tag) == \E i \in DOMAIN ChannelTags : ChannelTags[i] = tag

Leaf(tag, text) == [tag |-> tag, text |-> text, kids |-> <<>>]
ChannelNode(i) ==
    [tag |-> ChannelTag(i), text |-> <<>>,
     kids |-> <<Leaf("Name", <<>>), Leaf("Payload", <<>>)>>]

OpenPMU_SV ==
    << Leaf("Format", <<"S">>), Leaf("Date", <<>>), Leaf("Time", <<>>),
       Leaf("Frame", <<>>), Leaf("Fs", <<>>), Leaf("n", <<>>),
       Leaf("bits", <<>>), Leaf("Channels", <<>>),
       ChannelNode(0), ChannelNode(1), ChannelNode(2) >>

SetLevel2(level2, sub) ==
    IF level2.tag \in DOMAIN sub
    THEN [level2 EXCEPT !.text = dictTypeConvert(level2.tag, sub[level2.tag])]
    ELSE level2

(* lines 143-152: a node whose tag is a key of the record gets its text *)
SetLevel1(level1, dict) ==
    IF level1.tag \notin DOMAIN dict THEN level1
    ELSE IF IsChannelTag(level1.tag)
    THEN [level1 EXCEPT
            !.kids = [j \in DOMAIN level1.kids |->
                        SetLevel2(level1.kids[j], dict[level1.tag])]]
    ELSE [level1 EXCEPT !.text = dictTypeConvert(level1.tag, dict[level1.tag])]

(* Mutant: no node is removed *)
KeepLevel1_KeepsAll(level0, dict) == level0

(* lines 153-154: a node whose tag is no key of the record is removed *)
KeepLevel1(level0, dict) ==
    LET InDict(level1) == level1.tag \in DOMAIN dict
    IN  SelectSeq(level0, InDict)

(* toXML: the root's children after the call; etree.tostring serialises
   exactly these, so the document returned is written as the same value *)
toXML(level0, dict) ==
    LET kept == KeepLevel1(level0, dict)
    IN  [i \in DOMAIN kept |-> SetLevel1(kept[i], dict)]

----------------------------------------------------------------------------
(* The sample source *)

Min(a, b) == IF a < b THEN a ELSE b
Max(a, b) == IF a > b THEN a ELSE b

(* Mutant: the generator ends one block early *)
HasNext_DropsLast(gen, file) == file - gen > BlockSize

HasNext(gen, file) == file - gen > 0
NextBlock(gen, file) == [start |-> gen, len |-> Min(BlockSize, file - gen)]
(* payload[i, :] *)
Row(block, i) ==
    IF "rows" \in DOMAIN block
    THEN [samples |-> block.rows[i + 1]]
    ELSE [chan |-> i, start |-> block.start, len |-> block.len]

(* line 164: block.T.byteswap(), block being the sample frames as read *)
Yield(block) ==
    [rows |-> [i \in 1..Len(block[1]) |->
                 [j \in DOMAIN block |-> byteswap(block[j][i])]]]

(* lines 163-164: what the generator hands out for the block at a place of
   the file of sample frames content *)
Blocks(content, block) ==
    IF content = <<>> THEN block
    ELSE Yield(SubSeq(content, block.start + 1, block.start + block.len))

Put(dict, key, value) ==
    [k \in DOMAIN dict \cup {key} |-> IF k = key THEN value ELSE dict[k]]

RECURSIVE WithChannels(_, _, _)
WithChannels(dict, block, i) ==
    IF i = 0 THEN dict
    ELSE Put(WithChannels(dict, block, i - 1), ChannelTag(i - 1),
             [Payload |-> Row(block, i - 1)])

----------------------------------------------------------------------------
(* Initial state: a constructed WaveMU object, run() not yet invoked *)

DefaultChannels == 2

ShortFiles ==
    {k * BlockSize + r : k \in 0..MaxSmallBlocks, r \in 0..MaxRemainder}

LongFile == (FramesPerSecond + ExtraBlocks) * BlockSize

Init ==
    /\ pc = "idle"
    /\ stopThread = FALSE
    /\ xmlTemplate = OpenPMU_SV
    /\ \/ waveFile \in ShortFiles /\ channels \in 1..MaxChannels
       \/ waveFile = LongFile /\ channels = DefaultChannels
    /\ samples = <<>>
    /\ clock = MsPerSecond - TickMs
    /\ jitter = 0
    /\ runs = 0
    /\ timeStart = 0
    /\ startTime = 0
    /\ resultDict = None
    /\ frame = 0
    /\ SVgen = 0
    /\ now = 0
    /\ payload = None
    /\ xml = None
    /\ s = 0
    /\ sentOut = <<>>
    /\ sentFwd = <<>>
    /\ nOut = 0
    /\ nFwd = 0
    /\ syncAt = 0
    /\ stopAt = NotStopped

----------------------------------------------------------------------------
(* Clock helpers *)

Second(t) == (t \div MsPerSecond) % 60
NextSecond(t) == ((t \div MsPerSecond) + 1) * MsPerSecond
IntervalTicks == IntervalMs \div TickMs
InRun == pc \notin {"idle", "returned", "raised"}

Window(log, datagram) ==
    IF Len(log) < LogWindow THEN Append(log, datagram)
    ELSE Append(Tail(log), datagram)

object == <<xmlTemplate, channels, waveFile, samples>>
locals == <<timeStart, startTime, resultDict, frame, SVgen, now, payload, xml,
            s>>
wire == <<sentOut, sentFwd, nOut, nFwd>>

(* run() is left, by return or by an exception: its locals are gone *)
Leave(how) ==
    /\ pc' = how
    /\ timeStart' = 0
    /\ startTime' = 0
    /\ resultDict' = None
    /\ frame' = 0
    /\ SVgen' = 0
    /\ now' = 0
    /\ payload' = None
    /\ xml' = None
    /\ s' = 0
    /\ jitter' = 0

----------------------------------------------------------------------------
(* stop(): sets the flag *)

stop == stopThread' = TRUE

(* stop() called from another thread, at any time *)
Stop ==
    /\ stop
    /\ stopAt' = IF InRun /\ stopAt = NotStopped THEN <<nOut, nFwd>> ELSE stopAt
    /\ UNCHANGED <<pc, object, clock, jitter, runs, locals, wire, syncAt>>

----------------------------------------------------------------------------
(* A file of more than a second of frames is streamed once; the re-runs of
   an object are those of the short files with the default channel count *)
RunsOf(file, chs) ==
    IF file \in ShortFiles /\ chs = DefaultChannels THEN MaxRuns ELSE 1

(* Mutant: run() does not reset the flag *)
Run_KeepsFlag ==
    /\ ~InRun
    /\ runs < RunsOf(waveFile, channels)
    /\ runs' = runs + 1
    /\ timeStart' = clock
    /\ resultDict' = [k \in {"Fs", "n", "Channels", "bits"} |->
                        CASE k = "Fs" -> Fs
                          [] k = "n" -> n
                          [] k = "Channels" -> channels
                          [] k = "bits" -> bits]
    /\ frame' = 0
    /\ SVgen' = 0
    /\ sentOut' = <<>>
    /\ sentFwd' = <<>>
    /\ nOut' = 0
    /\ nFwd' = 0
    /\ syncAt' = 0
    /\ stopAt' = NotStopped
    /\ pc' = "startTime"
    /\ UNCHANGED <<stopThread, object, clock, jitter, startTime, now, payload,
                   xml, s>>

(* run(), lines 67-87: reset the flag, take timeStart, create the sockets,
   the basic information, the frame count and the generator *)
Run ==
    /\ ~InRun
    /\ runs < RunsOf(waveFile, channels)
    /\ runs' = runs + 1
    /\ stopThread' = FALSE
    /\ timeStart' = clock
    /\ resultDict' = [k \in {"Fs", "n", "Channels", "bits"} |->
                        CASE k = "Fs" -> Fs
                          [] k = "n" -> n
                          [] k = "Channels" -> channels
                          [] k = "bits" -> bits]
    /\ frame' = 0
    /\ SVgen' = 0
    /\ sentOut' = <<>>
    /\ sentFwd' = <<>>
    /\ nOut' = 0
    /\ nFwd' = 0
    /\ syncAt' = 0
    /\ stopAt' = NotStopped
    /\ pc' = "startTime"
    /\ UNCHANGED <<object, clock, jitter, startTime, now, payload, xml, s>>

(* line 90: the clock is read again, d ticks after timeStart was taken *)
HoldStart ==
    /\ pc = "startTime"
    /\ \E d \in 0..(MaxJitterTicks - jitter) :
          /\ clock' = clock + d * TickMs
          /\ jitter' = jitter + d
    /\ startTime' = clock'
    /\ pc' = "hold"
    /\ UNCHANGED <<stopThread, object, runs, timeStart, resultDict, frame,
                   SVgen, now, payload, xml, s, wire, syncAt, stopAt>>

(* Mutant: the hold-off loop is left at once *)
HoldOff_NoWait ==
    /\ pc = "hold"
    /\ pc' = "loop"
    /\ syncAt' = clock
    /\ timeStart' = 0
    /\ startTime' = 0
    /\ UNCHANGED <<stopThread, object, clock, jitter, runs, resultDict, frame,
                   SVgen, now, payload, xml, s, wire, stopAt>>

(* lines 91-92: the hold-off loop.  While the second read from the clock is
   startTime's the thread sleeps; the polls that read that same second are
   folded into one step, which ends at the first clock value the loop test
   reads after the second has changed.  startTime is not read again. *)
HoldOff ==
    /\ pc = "hold"
    /\ IF Second(startTime) = Second(clock)
       THEN /\ \E k \in 0..(MaxJitterTicks - jitter) :
                 /\ clock' = NextSecond(clock) + k * TickMs
                 /\ jitter' = jitter + k
            /\ UNCHANGED <<pc, syncAt, timeStart, startTime>>
       ELSE /\ pc' = "loop"
            /\ syncAt' = clock
            /\ timeStart' = 0
            /\ startTime' = 0
            /\ UNCHANGED <<clock, jitter>>
    /\ UNCHANGED <<stopThread, object, runs, resultDict, frame, SVgen, now,
                   payload, xml, s, wire, stopAt>>

(* Mutant: the loop does not test the flag *)
LoopTest_IgnoresFlag ==
    /\ pc = "loop"
    /\ pc' = "stamp"
    /\ UNCHANGED <<stopThread, object, clock, jitter, runs, locals, wire,
                   syncAt, stopAt>>

(* line 94: while not self.stopThread *)
LoopTest ==
    /\ pc = "loop"
    /\ IF stopThread
       THEN Leave("returned")
       ELSE /\ pc' = "stamp"
            /\ UNCHANGED <<jitter, locals>>
    /\ UNCHANGED <<stopThread, object, clock, runs, wire, syncAt, stopAt>>

(* lines 95-98 *)
Stamp ==
    /\ pc = "stamp"
    /\ now' = clock
    /\ resultDict' = Put(Put(Put(resultDict, "Time", TimeField(clock, frame)),
                             "Date", strftimeDate(clock)),
                         "Frame", frame)
    /\ pc' = "pull"
    /\ UNCHANGED <<stopThread, object, clock, jitter, runs, timeStart,
                   startTime, frame,
                   SVgen, payload, xml, s, wire, syncAt, stopAt>>

(* lines 100-104: next(SVgen); when it raises, self.stop() and break *)
Pull ==
    /\ pc = "pull"
    /\ IF HasNext(SVgen, waveFile)
       THEN /\ payload' = Blocks(samples, NextBlock(SVgen, waveFile))
            /\ SVgen' = SVgen + NextBlock(SVgen, waveFile).len
            /\ pc' = "build"
            /\ UNCHANGED <<stopThread, jitter, timeStart, startTime,
                           resultDict, frame,
                           now, xml, s>>
       ELSE /\ stop
            /\ Leave("returned")
    /\ UNCHANGED <<object, clock, runs, wire, syncAt, stopAt>>

(* lines 106-109 *)
Build ==
    /\ pc = "build"
    /\ resultDict' = WithChannels(resultDict, payload, channels)
    /\ pc' = "encode"
    /\ UNCHANGED <<stopThread, object, clock, jitter, runs, timeStart,
                   startTime, frame,
                   SVgen, now, payload, xml, s, wire, syncAt, stopAt>>

(* line 111: toXML edits self.xmlTemplate in place and serialises it *)
Encode ==
    /\ pc = "encode"
    /\ xmlTemplate' = toXML(xmlTemplate, resultDict)
    /\ xml' = xmlTemplate'
    /\ pc' = "sendOut"
    /\ UNCHANGED <<stopThread, channels, waveFile, samples, clock, jitter, runs,
                   timeStart, startTime, resultDict, frame, SVgen, now,
                   payload, s, wire,
                   syncAt, stopAt>>

(* Mutant: the counter advances between the two sends *)
SendOut_ThenAdvance ==
    /\ pc = "sendOut"
    /\ sentOut' = Window(sentOut, xml)
    /\ nOut' = nOut + 1
    /\ frame' = IF frame + 1 = FramesPerSecond THEN 0 ELSE frame + 1
    /\ pc' = "sendFwd"
    /\ UNCHANGED <<stopThread, object, clock, jitter, runs, timeStart,
                   startTime,
                   resultDict, SVgen, now, payload, xml, s, sentFwd, nFwd,
                   syncAt, stopAt>>

(* line 113 *)
SendOut ==
    /\ pc = "sendOut"
    /\ sentOut' = Window(sentOut, xml)
    /\ nOut' = nOut + 1
    /\ pc' = "sendFwd"
    /\ UNCHANGED <<stopThread, object, clock, jitter, runs, locals, sentFwd,
                   nFwd, syncAt, stopAt>>

(* Mutant: the relay send is left out *)
SendFwd_Skipped ==
    /\ pc = "sendFwd"
    /\ pc' = "advance"
    /\ UNCHANGED <<stopThread, object, clock, jitter, runs, locals, wire,
                   syncAt, stopAt>>

(* line 114 *)
SendFwd ==
    /\ pc = "sendFwd"
    /\ sentFwd' = Window(sentFwd, xml)
    /\ nFwd' = nFwd + 1
    /\ pc' = "advance"
    /\ UNCHANGED <<stopThread, object, clock, jitter, runs, locals, sentOut,
                   nOut, syncAt, stopAt>>

(* Mutant: the frame counter never wraps *)
Advance_NoWrap ==
    /\ pc = "advance"
    /\ frame' = frame + 1
    /\ pc' = "residual"
    /\ UNCHANGED <<stopThread, object, clock, jitter, runs, timeStart,
                   startTime,
                   resultDict, SVgen, now, payload, xml, s, wire, syncAt,
                   stopAt>>

(* Mutant: the wrap test is off by one *)
Advance_WrapsLate ==
    /\ pc = "advance"
    /\ frame' = IF frame + 1 > FramesPerSecond THEN 0 ELSE frame + 1
    /\ pc' = "residual"
    /\ UNCHANGED <<stopThread, object, clock, jitter, runs, timeStart,
                   startTime,
                   resultDict, SVgen, now, payload, xml, s, wire, syncAt,
                   stopAt>>

(* lines 118-124 *)
Advance ==
    /\ pc = "advance"
    /\ frame' = IF frame + 1 = FramesPerSecond THEN 0 ELSE frame + 1
    /\ pc' = "residual"
    /\ UNCHANGED <<stopThread, object, clock, jitter, runs, timeStart,
                   startTime,
                   resultDict, SVgen, now, payload, xml, s, wire, syncAt,
                   stopAt>>

(* line 127: the clock read shows the time the cycle's work has taken, e
   ticks.  jitter counts the ticks by which the cycles of the run have
   exceeded the interval. *)
Residual ==
    /\ pc = "residual"
    /\ \E e \in 0..(IntervalTicks + MaxJitterTicks - jitter) :
          /\ clock' = clock + e * TickMs
          /\ s' = IntervalMs - (clock' - now)
          /\ jitter' = jitter + (Max(0 - s', 0) \div TickMs)
    /\ pc' = "sleep"
    /\ UNCHANGED <<stopThread, object, runs, timeStart, startTime, resultDict,
                   frame, SVgen, now, payload, xml, wire, syncAt, stopAt>>

(* Mutant: the residual is passed to time.sleep as it is *)
SleepFor_Unclamped(v) == v

(* line 131: the argument of time.sleep *)
SleepFor(v) == IF v > 0 THEN v ELSE 0

(* line 131: time.sleep returns after at least the time asked for, o ticks
   late *)
Sleep ==
    /\ pc = "sleep"
    /\ \E o \in 0..(MaxJitterTicks - jitter) :
          /\ clock' = clock + SleepFor(s) + o * TickMs
          /\ jitter' = jitter + o
    /\ s' = 0
    /\ pc' = "loop"
    /\ UNCHANGED <<stopThread, object, runs, timeStart, startTime, resultDict,
                   frame, SVgen, now, payload, xml, wire, syncAt, stopAt>>

(* lines 113, 114: sendto raises (OSError); nothing in run() catches it *)
SendOutFail ==
    /\ pc = "sendOut"
    /\ Leave("raised")
    /\ UNCHANGED <<stopThread, object, clock, runs, wire, syncAt, stopAt>>

SendFwdFail ==
    /\ pc = "sendFwd"
    /\ Leave("raised")
    /\ UNCHANGED <<stopThread, object, clock, runs, wire, syncAt, stopAt>>

Next ==
    \/ Run \/ HoldStart \/ HoldOff \/ LoopTest \/ Stamp \/ Pull \/ Build
    \/ Encode \/ SendOut \/ SendFwd \/ Advance \/ Residual \/ Sleep \/ Stop

Spec == Init /\ [][Next]_vars

(* Mutant: only the end of the generator is caught *)
PullFail_Raises ==
    /\ pc = "pull"
    /\ Leave("raised")
    /\ UNCHANGED <<stopThread, object, clock, runs, wire, syncAt, stopAt>>

(* lines 100-104: next(SVgen) raises something other than the end of the
   generator (the file cannot be opened or read or decoded, lines 163-164);
   the except of line 102 names no exception type and takes it as well *)
PullFail ==
    /\ pc = "pull"
    /\ stop
    /\ Leave("returned")
    /\ UNCHANGED <<object, clock, runs, wire, syncAt, stopAt>>

NextSendFail == Next \/ SendOutFail \/ SendFwdFail

SpecSendFail == Init /\ [][NextSendFail]_vars

NextPullFail == Next \/ PullFail

SpecPullFail == Init /\ [][NextPullFail]_vars

(* The scenario of a 2-channel file of 256 blocks of 128 sample frames (2.56
   seconds at Fs), streamed by one run() that no stop() interrupts *)
ScenarioFile == 256 * BlockSize

InitScenario ==
    /\ pc = "idle"
    /\ stopThread = FALSE
    /\ xmlTemplate = OpenPMU_SV
    /\ waveFile = ScenarioFile
    /\ channels = DefaultChannels
    /\ samples = <<>>
    /\ clock = MsPerSecond - TickMs
    /\ jitter = 0
    /\ runs = 0
    /\ timeStart = 0
    /\ startTime = 0
    /\ resultDict = None
    /\ frame = 0
    /\ SVgen = 0
    /\ now = 0
    /\ payload = None
    /\ xml = None
    /\ s = 0
    /\ sentOut = <<>>
    /\ sentFwd = <<>>
    /\ nOut = 0
    /\ nFwd = 0
    /\ syncAt = 0
    /\ stopAt = NotStopped

NextScenario ==
    \/ Run \/ HoldStart \/ HoldOff \/ LoopTest \/ Stamp \/ Pull \/ Build
    \/ Encode \/ SendOut \/ SendFwd \/ Advance \/ Residual \/ Sleep

SpecScenario == InitScenario /\ [][NextScenario]_vars

(* Files whose sample values are followed: up to MaxFrames sample frames,
   the rows of the channels being windows of SampleValues *)
SampleValues == <<0, 1, -1, 255, 256, -32768, 32767>>
SampleAt(k) == SampleValues[(k % Len(SampleValues)) + 1]
SampleFrames(first, len, chs) ==
    [j \in 1..len |-> [i \in 1..chs |-> SampleAt(first + (j - 1) + (i - 1))]]

InitCodec ==
    /\ pc = "idle"
    /\ stopThread = FALSE
    /\ xmlTemplate = OpenPMU_SV
    /\ channels \in 1..MaxChannels
    /\ waveFile \in 1..MaxFrames
    /\ \E first \in 0..(Len(SampleValues) - 1) :
          samples = SampleFrames(first, waveFile, channels)
    /\ clock = MsPerSecond - TickMs
    /\ jitter = 0
    /\ runs = 0
    /\ timeStart = 0
    /\ startTime = 0
    /\ resultDict = None
    /\ frame = 0
    /\ SVgen = 0
    /\ now = 0
    /\ payload = None
    /\ xml = None
    /\ s = 0
    /\ sentOut = <<>>
    /\ sentFwd = <<>>
    /\ nOut = 0
    /\ nFwd = 0
    /\ syncAt = 0
    /\ stopAt = NotStopped

SpecCodec == InitCodec /\ [][Next]_vars

----------------------------------------------------------------------------
(* Reading a document back *)

DigitValue(c) == CHOOSE d \in 0..9 : Digits[d + 1] = c

RECURSIVE ParseNat(_)
ParseNat(text) ==
    IF Len(text) = 0 THEN 0
    ELSE 10 * ParseNat(SubSeq(text, 1, Len(text) - 1)) + DigitValue(text[Len(text)])

Tags(doc) == [i \in DOMAIN doc |-> doc[i].tag]
HasField(doc, tag) == \E i \in DOMAIN doc : doc[i].tag = tag
Node(doc, tag) == doc[CHOOSE i \in DOMAIN doc : doc[i].tag = tag]
Field(doc, tag) == Node(doc, tag).text
FrameOf(doc) == ParseNat(Field(doc, "Frame"))
PayloadOf(doc, i) == Field(Node(doc, ChannelTag(i)).kids, "Payload")

Last(log) == log[Len(log)]
BlockAt(k) == [start |-> k * BlockSize, len |-> BlockSize]
FullBlocks(file) == file \div BlockSize

----------------------------------------------------------------------------
(* C1: the Frame values of the frames transmitted in a run are 0, 1, ...,
   FramesPerSecond - 1, 0, 1, ...: the j-th frame handed to a destination
   carries (j - 1) mod FramesPerSecond, each frame carries its predecessor's
   value plus one (0 after FramesPerSecond - 1), and no value is outside
   0..FramesPerSecond - 1. *)
FrameSequenceOf(log, count) ==
    /\ \A i \in DOMAIN log : FrameOf(log[i]) \in 0..(FramesPerSecond - 1)
    /\ count > 0 => FrameOf(Last(log)) = (count - 1) % FramesPerSecond
    /\ \A i \in DOMAIN log :
          i > 1 => FrameOf(log[i]) = (FrameOf(log[i - 1]) + 1) % FramesPerSecond

C1_FrameCounter ==
    /\ FrameSequenceOf(sentOut, nOut)
    /\ FrameSequenceOf(sentFwd, nFwd)

C1_Witness ==
    /\ nOut > FramesPerSecond
    /\ Len(sentOut) >= 2
    /\ FrameOf(sentOut[Len(sentOut) - 1]) = FramesPerSecond - 1
    /\ FrameOf(Last(sentOut)) = 0

(* C2: a file of exactly k full blocks, stop() never called from outside:
   the run hands k frames to each destination, the j-th carrying block j,
   and returns with the flag set; while it runs it always has a next step. *)
RunStep ==
    \/ HoldStart \/ HoldOff \/ LoopTest \/ Stamp \/ Pull \/ Build \/ Encode
    \/ SendOut \/ SendFwd \/ Advance \/ Residual \/ Sleep

C2_EndOfStream ==
    (waveFile % BlockSize = 0 /\ stopAt = NotStopped) =>
        /\ nOut <= FullBlocks(waveFile)
        /\ nOut > 0 =>
              \A i \in 0..(channels - 1) :
                  HasField(Last(sentOut), ChannelTag(i)) =>
                      PayloadOf(Last(sentOut), i)
                          = b64encode(Row(BlockAt(nOut - 1), i))
        /\ InRun => ENABLED RunStep
        /\ pc # "raised"
        /\ (runs > 0 /\ ~InRun) =>
              /\ pc = "returned"
              /\ stopThread
              /\ nOut = FullBlocks(waveFile)
              /\ nFwd = FullBlocks(waveFile)

C2_Witness ==
    /\ pc = "returned"
    /\ stopAt = NotStopped
    /\ waveFile = LongFile
    /\ nOut = FramesPerSecond + ExtraBlocks
    /\ nFwd = nOut

----------------------------------------------------------------------------
(* Reading the Date, Time and Payload texts back *)

DateDay(text) == ParseNat(Tail(text))

TimeMs(text) ==
    ((ParseNat(SubSeq(text, 1, 2)) * 60 + ParseNat(SubSeq(text, 4, 5))) * 60
        + ParseNat(SubSeq(text, 7, 8))) * MsPerSecond
    + ParseNat(SubSeq(text, 10, Len(text)))

StampOf(doc) == DateDay(Field(doc, "Date")) * MsPerDay + TimeMs(Field(doc, "Time"))

RECURSIVE AfterChar(_, _)
AfterChar(text, c) ==
    IF Len(text) = 0 THEN <<>>
    ELSE IF Head(text) = c THEN Tail(text)
    ELSE AfterChar(Tail(text), c)

PayloadLen(text) == ParseNat(AfterChar(text, "+"))

(* C3: within a run each transmitted frame's Date/Time stamp is exactly one
   interval later than the stamp of the frame transmitted before it. *)
C3_EvenlySpaced ==
    \A i \in DOMAIN sentOut :
        i > 1 => StampOf(sentOut[i]) - StampOf(sentOut[i - 1]) = IntervalMs

(* C4: the Time values of a run are those of any other run over the same
   source that left the hold-off loop at the same instant, whatever delays
   the two meet; in particular those of the run that meets no delay, whose
   j-th cycle starts at syncAt + (j - 1) * interval. *)
C4_TimeDeterminism ==
    nOut > 0 =>
        Field(Last(sentOut), "Time")
            = TimeField(syncAt + (nOut - 1) * IntervalMs,
                        (nOut - 1) % FramesPerSecond)

(* C5: once stop() has been called during a run the flag stays set, at most
   one more datagram goes to each destination, the loop test that reads the
   set flag ends the run, and the step after the primary send is the relay
   send of the same cycle. *)
C5_StopBound ==
    stopAt # NotStopped =>
        /\ InRun => stopThread
        /\ nOut - stopAt[1] <= 1
        /\ nFwd - stopAt[2] <= 1

C5_Step ==
    /\ (pc = "sendFwd" /\ pc' # pc) => (pc' = "advance" /\ nFwd' = nFwd + 1)
    /\ (pc = "loop" /\ stopThread /\ pc' # pc) => pc' = "returned"

C5_CooperativeStop == []C5_StopBound /\ [][C5_Step]_vars

C5_Witness ==
    /\ pc = "returned"
    /\ stopAt # NotStopped
    /\ nOut = stopAt[1] + 1
    /\ nFwd = stopAt[2] + 1
    /\ nOut < FullBlocks(waveFile)

(* C6: every cycle that transmits hands exactly one datagram to the primary
   and one to the relay, with the same bytes, so the frames handed to the
   two destinations are the same sequence; the relay is one behind only
   between the two sends of a cycle. *)
Pulled == (SVgen + BlockSize - 1) \div BlockSize

C6_SameDatagrams ==
    /\ nOut = nFwd => sentOut = sentFwd
    /\ nOut # nFwd =>
          /\ pc = "sendFwd"
          /\ nOut = nFwd + 1
          /\ Last(sentOut) = xml
          /\ Window(sentFwd, xml) = sentOut
    /\ pc \in {"build", "encode", "sendOut"} => nOut = Pulled - 1
    /\ pc \in {"sendFwd", "advance", "residual", "sleep", "loop", "stamp",
              "pull"} =>
          nOut = Pulled
    /\ pc \in {"advance", "residual", "sleep", "loop", "stamp", "pull"} =>
          nFwd = Pulled

C6_Witness ==
    /\ pc = "sleep"
    /\ nOut = 2
    /\ nFwd = 2
    /\ sentOut = sentFwd
    /\ sentOut[1] # sentOut[2]

(* C7: when the send to one destination fails, the send to the other
   destination of that cycle is still made: the step after the primary send,
   failed or not, is the relay send; and no send is made twice. *)
C7_Step ==
    /\ (pc = "sendOut" /\ pc' # pc) => pc' = "sendFwd"
    /\ nOut' <= nOut + 1
    /\ nFwd' <= nFwd + 1

C7_OtherSendStillMade == [][C7_Step]_vars

(* C8: the top-level fields of every document are the template's declared
   fields that are keys of the frame record, in the template's order: an
   undeclared key of the record is dropped, a declared field the record
   lacks is absent. *)
RecordKeys ==
    {"Fs", "n", "Channels", "bits", "Time", "Date", "Frame"}
        \cup {ChannelTag(i) : i \in 0..(channels - 1)}

Declared(keys) ==
    LET IsKey(tag) == tag \in keys
    IN  SelectSeq(Tags(OpenPMU_SV), IsKey)

C8_SchemaPruning ==
    /\ pc \in {"sendOut", "sendFwd"} =>
          /\ DOMAIN resultDict = RecordKeys
          /\ Tags(xml) = Declared(DOMAIN resultDict)
    /\ \A i \in DOMAIN sentOut : Tags(sentOut[i]) = Declared(RecordKeys)
    /\ \A i \in DOMAIN sentFwd : Tags(sentFwd[i]) = Declared(RecordKeys)

C8_Witness ==
    /\ pc = "sendOut"
    /\ nOut >= 1
    /\ "Channel_3" \in DOMAIN resultDict
    /\ ~HasField(xml, "Channel_3")
    /\ HasField(OpenPMU_SV, "Format")
    /\ ~HasField(xml, "Format")
    /\ HasField(xml, "Channel_2")

(* C9: the template held by the object is, after any number of toXML calls,
   what was loaded: the same fields with the same contents. *)
C9_TemplateUnchanged == xmlTemplate = OpenPMU_SV

(* C10: a remainder shorter than a block is not yielded: every transmitted
   frame carries n samples per channel, and a run that stop() did not cut
   short has transmitted as many frames as the file has full blocks. *)
C10_PartialBlockDropped ==
    /\ \A j \in DOMAIN sentOut : \A i \in 0..(channels - 1) :
          HasField(sentOut[j], ChannelTag(i)) =>
              PayloadLen(PayloadOf(sentOut[j], i)) = n
    /\ (runs > 0 /\ ~InRun /\ stopAt = NotStopped) =>
          nOut = FullBlocks(waveFile)

----------------------------------------------------------------------------
(* C11: from the invocation of run() until the hold-off loop is left no
   block is pulled and no datagram is sent; the loop is left only at a clock
   reading whose second differs from the second of the clock when run() was
   invoked; the first frame sent after that carries Frame 0. *)
C11_Holding ==
    pc \in {"startTime", "hold"} =>
        /\ SVgen = 0
        /\ payload = None
        /\ nOut = 0
        /\ nFwd = 0

C11_Step ==
    /\ pc \in {"startTime", "hold"} => (SVgen' = SVgen /\ wire' = wire)
    /\ (pc = "hold" /\ pc' # pc) =>
          /\ pc' = "loop"
          /\ Second(clock') # Second(timeStart)
          /\ syncAt' = clock'
    /\ (nOut = 0 /\ nOut' = 1) => FrameOf(Last(sentOut')) = 0
    /\ (nFwd = 0 /\ nFwd' = 1) => FrameOf(Last(sentFwd')) = 0

C11_SecondBoundary == []C11_Holding /\ [][C11_Step]_vars

C11_Witness ==
    /\ runs = 1
    /\ syncAt = NextSecond(MsPerSecond)
    /\ nOut = 1
    /\ nFwd = 1
    /\ FrameOf(Last(sentOut)) = 0

(* C12: the time asked of time.sleep is max(0, interval - elapsed), elapsed
   being the clock at line 127 less the cycle's now; the sleep, of zero when
   the cycle has overrun, ends in the loop test of the next cycle and not in
   an error, the clock never before the time asked for; the frame counter
   is then one above the Frame of the cycle (0 after the last of a second),
   overrun or not. *)
C12_Residual ==
    /\ pc = "sleep" =>
          /\ s = IntervalMs - (clock - now)
          /\ SleepFor(s) = Max(0, IntervalMs - (clock - now))
    /\ pc \in {"residual", "sleep"} =>
          frame = (resultDict["Frame"] + 1) % FramesPerSecond

C12_Step ==
    (pc = "sleep" /\ pc' # pc) =>
        /\ pc' = "loop"
        /\ clock' - clock = Max(0, s) + (jitter' - jitter) * TickMs
        /\ jitter' >= jitter
        /\ frame' = frame
        /\ wire' = wire

C12_ResidualSleep == []C12_Residual /\ [][C12_Step]_vars

C12_Witness ==
    /\ pc = "sleep"
    /\ s < 0
    /\ nOut = 2
    /\ FrameOf(Last(sentOut)) = 1
    /\ frame = 2

(* C13 (as claimed): once run() has returned, by stop() or by the end of the
   source, the object stays where it is: no later call starts the hold-off
   loop or the frame loop again. *)
C13_StoppedIsTerminal == [][pc = "returned" => pc' = "returned"]_vars

(* C14 (as claimed): the scenario's run transmits 256 frames whose Frame
   values pass through 0..99 three times and then through 56 more values. *)
C14_ThreePasses ==
    (pc = "returned" /\ runs = 1) =>
        /\ nOut = 256
        /\ nOut \div FramesPerSecond = 3
        /\ nOut % FramesPerSecond = 56

(* C14: the scenario's run transmits exactly 256 frames to each destination;
   the j-th carries Frame (j - 1) mod 100, so the Frame values pass through
   0..99 two times and then through 0..55; every frame has the Payload of
   Channel_0 and of Channel_1 and of no other channel, each of n = 128
   samples, which are 256 bytes. *)
PayloadBytes(text) == PayloadLen(text) * (bits \div 8)

C14_Scenario ==
    /\ nOut <= 256
    /\ nOut > 0 => FrameOf(Last(sentOut)) = (nOut - 1) % FramesPerSecond
    /\ \A j \in DOMAIN sentOut :
          /\ \A i \in 0..5 : HasField(sentOut[j], ChannelTag(i)) <=> i < 2
          /\ \A i \in 0..1 :
                /\ PayloadLen(PayloadOf(sentOut[j], i)) = 128
                /\ PayloadBytes(PayloadOf(sentOut[j], i)) = 256
    /\ (pc = "returned" /\ runs = 1) =>
          /\ nOut = 256
          /\ nFwd = 256
          /\ sentFwd = sentOut
          /\ nOut \div FramesPerSecond = 2
          /\ nOut % FramesPerSecond = 56
          /\ FrameOf(Last(sentOut)) = 55

C14_Witness ==
    /\ pc = "returned"
    /\ waveFile = ScenarioFile
    /\ nOut = 256
    /\ FrameOf(sentOut[1]) = 54
    /\ FrameOf(sentOut[2]) = 55

----------------------------------------------------------------------------
(* Reading a payload back *)

B64Value(c) == CHOOSE v \in 0..63 : Base64Alphabet[v + 1] = c

RECURSIVE b64decode(_)
b64decode(text) ==
    IF Len(text) = 0 THEN <<>>
    ELSE LET v1 == B64Value(text[1])
             v2 == B64Value(text[2])
             b1 == v1 * 4 + (v2 \div 16)
         IN  IF text[3] = "=" THEN <<b1>>
             ELSE LET v3 == B64Value(text[3])
                      b2 == (v2 % 16) * 16 + (v3 \div 4)
                  IN  IF text[4] = "=" THEN <<b1, b2>>
                      ELSE <<b1, b2, (v3 % 4) * 64 + B64Value(text[4])>>
                               \o b64decode(SubSeq(text, 5, Len(text)))

(* The 16-bit samples of a row, the high byte of each first *)
BigEndian(row) ==
    [k \in 1..(2 * Len(row)) |->
        IF k % 2 = 1 THEN Unsigned16(row[(k + 1) \div 2]) \div 256
        ELSE Unsigned16(row[k \div 2]) % 256]

(* Row i of the block pulled last, as it is in the file *)
PulledRow(i) ==
    LET from == ((SVgen - 1) \div BlockSize) * BlockSize
    IN  [j \in 1..(SVgen - from) |-> samples[from + j][i + 1]]

RoundTrip(doc, chs) ==
    /\ ParseNat(Field(doc, "Fs")) = Fs
    /\ ParseNat(Field(doc, "n")) = n
    /\ ParseNat(Field(doc, "Channels")) = channels
    /\ ParseNat(Field(doc, "bits")) = bits
    /\ \A i \in chs :
          /\ HasField(doc, ChannelTag(i))
          /\ b64decode(PayloadOf(doc, i)) = BigEndian(PulledRow(i))

DeclaredChannels ==
    {i \in 0..(channels - 1) : HasField(OpenPMU_SV, ChannelTag(i))}

(* C16 (as claimed): the document of a cycle gives back Fs, n, Channels and
   bits, and for every channel below the configured number a Payload whose
   base64 decoding is the big-endian 16-bit buffer of that row of the block
   pulled in the cycle. *)
C16_AllChannels ==
    pc \in {"sendOut", "sendFwd"} => RoundTrip(xml, 0..(channels - 1))

(* C16: the document of a cycle, as encoded and as handed to the primary,
   gives back Fs, n, Channels and bits, and for every channel below the
   configured number that the template declares a Payload whose base64
   decoding is the big-endian 16-bit buffer of that row of the block pulled
   in the cycle. *)
C16_RoundTrip ==
    /\ pc \in {"sendOut", "sendFwd"} => RoundTrip(xml, DeclaredChannels)
    /\ pc = "sendFwd" => RoundTrip(Last(sentOut), DeclaredChannels)
    /\ pc = "advance" => RoundTrip(Last(sentFwd), DeclaredChannels)

C16_Witness ==
    /\ pc = "advance"
    /\ channels >= 2
    /\ PulledRow(0) = <<-32768, 32767, 0>>
    /\ PayloadOf(Last(sentFwd), 0) = <<"g", "A", "B", "/", "/", "w", "A", "A">>
    /\ BigEndian(PulledRow(1)) = <<127, 255, 0, 0, 0, 1>>

(* C17: the digits after the point of every Time are those of Frame times
   the interval in milliseconds (Frame * 10: a multiple of 10 below 1000),
   whatever the sub-second part of the clock read in the cycle; the part
   before the point is the clock's hour, minute and second. *)
MsPart(text) == ParseNat(SubSeq(text, 10, Len(text)))

FrameMs(doc) ==
    /\ Len(Field(doc, "Time")) = 12
    /\ MsPart(Field(doc, "Time")) = FrameOf(doc) * IntervalMs
    /\ MsPart(Field(doc, "Time")) < MsPerSecond
    /\ MsPart(Field(doc, "Time")) % IntervalMs = 0

C17_MsFromFrame ==
    /\ \A j \in DOMAIN sentOut : FrameMs(sentOut[j])
    /\ \A j \in DOMAIN sentFwd : FrameMs(sentFwd[j])
    /\ pc \in {"sendOut", "sendFwd"} =>
          /\ FrameMs(xml)
          /\ SubSeq(Field(xml, "Time"), 1, 8) = strftimeHMS(now)

C17_Witness ==
    /\ pc = "sendFwd"
    /\ FrameOf(Last(sentOut)) = 1
    /\ MsPart(Field(Last(sentOut), "Time")) = 10
    /\ now % MsPerSecond = 15

(* C18: in a cycle the Time and the Frame of the record are taken, from
   the clock read at the top of the cycle and from the counter, before the
   block is pulled, and they are what the document of the cycle carries;
   the counter changes only in the step after the relay send, when both
   destinations have the cycle's datagram; the clock is read for the
   residual and the thread sleeps only after that step. *)
C18_Captured ==
    /\ pc = "pull" =>
          /\ nOut = Pulled
          /\ resultDict["Frame"] = frame
          /\ resultDict["Time"] = TimeField(now, frame)
    /\ pc \in {"build", "encode", "sendOut", "sendFwd", "advance"} =>
          /\ resultDict["Frame"] = frame
          /\ resultDict["Time"] = TimeField(now, frame)
    /\ pc \in {"sendOut", "sendFwd", "advance"} =>
          /\ FrameOf(xml) = frame
          /\ Field(xml, "Time") = TimeField(now, frame)
    /\ pc \in {"residual", "sleep"} =>
          /\ nOut = Pulled
          /\ nFwd = Pulled
          /\ frame = (FrameOf(xml) + 1) % FramesPerSecond

C18_Step ==
    /\ (InRun /\ InRun' /\ frame' # frame) =>
          /\ pc = "advance"
          /\ pc' = "residual"
          /\ nOut = Pulled
          /\ nFwd = Pulled
          /\ Last(sentOut) = xml
          /\ Last(sentFwd) = xml
    /\ (pc \in {"pull", "build", "encode", "sendOut", "sendFwd"} /\ InRun') =>
          /\ now' = now
          /\ clock' = clock
          /\ resultDict'["Time"] = resultDict["Time"]
          /\ resultDict'["Frame"] = resultDict["Frame"]
    /\ (pc' = "residual" /\ pc # pc') => pc = "advance"
    /\ (pc' = "sleep" /\ pc # pc') => pc = "residual"

C18_CycleOrder == []C18_Captured /\ [][C18_Step]_vars

C18_Witness ==
    /\ pc = "sleep"
    /\ nOut = 2
    /\ nFwd = 2
    /\ FrameOf(Last(sentFwd)) = 1
    /\ frame = 2
    /\ clock > now

(* C19: run() leaves the flag cleared whatever it was, so a stop() before
   it does not keep the run from starting; a flag set while the run is
   before its first loop test stays set, no block is pulled and nothing is
   sent, and the first loop test ends the run. *)
C19_Step ==
    /\ runs' = runs + 1 => (~stopThread' /\ pc' = "startTime")
    /\ (stopThread /\ pc \in {"startTime", "hold"}) =>
          /\ stopThread'
          /\ pc' \in {"startTime", "hold", "loop"}
          /\ SVgen' = 0 /\ nOut' = 0 /\ nFwd' = 0
    /\ (stopThread /\ pc = "loop" /\ nOut = 0) =>
          /\ stopThread'
          /\ pc' \in {"loop", "returned"}
          /\ SVgen' = 0 /\ nOut' = 0 /\ nFwd' = 0

C19_ResetThenKept == [][C19_Step]_vars

C19_Witness ==
    /\ runs = 2
    /\ pc = "returned"
    /\ syncAt > 0
    /\ stopAt = <<0, 0>>
    /\ waveFile >= BlockSize
    /\ nOut = 0
    /\ nFwd = 0

(* C20: a pull that yields no block, because the source has ended or
   because reading it failed, sets the flag, sends nothing and ends the run
   by a return, never by an error; and whenever run() has returned the flag
   is set. *)
C20_Returned ==
    /\ pc # "raised"
    /\ pc = "returned" => stopThread

C20_Step ==
    (pc = "pull" /\ pc' # pc) =>
        \/ /\ pc' = "build"
           /\ SVgen' > SVgen
           /\ wire' = wire
        \/ /\ pc' = "returned"
           /\ stopThread'
           /\ wire' = wire

C20_PullFailureEndsRun == []C20_Returned /\ [][C20_Step]_vars

C20_Witness ==
    /\ pc = "returned"
    /\ stopThread
    /\ stopAt = NotStopped
    /\ nOut = 1
    /\ nFwd = 1
    /\ FullBlocks(waveFile) > 1

====
